---- MODULE Spec2Model ----
(***************************************************************************)
(* Model of the video optimizer: the queue loop of main.py, the pipeline   *)
(* of VideoProcessor.process_video and the file operations of FileManager. *)
(*                                                                         *)
(* Path strings are sequences of character codes, so that sorting, prefix  *)
(* tests, suffix extraction and extension replacement are computed the way *)
(* the Python code computes them.  A file location is a pair               *)
(* [root, rel]: os.path.join(root, rel).                                   *)
(***************************************************************************)
EXTENDS Integers, Sequences, FiniteSets, TLC

\* ------------------------------------------------------------------ bounds
\* Files that may arrive under the watched root during one run.
MaxFiles == 3
\* Files that may arrive at one and the same path during one run.
MaxGen == 2
\* Byte sizes of originals and of transcoder outputs range over 1..MaxSize.
MaxSize == 2
\* File-system operations that may fail for external reasons in one run of
\* SpecFaults.
MaxFaults == 1

\* ------------------------------------------------------- configuration
SOURCE_ROOT == "./to-convert"
OUTPUT_ROOT == "optimized"
ERRORED_ROOT == "errored"
IN_PROGRESS_ROOT == "in-progress"
DONE_ROOT == "done"
OPTIMIZED_BAD_ROOT == "optimized-bad"
OPTIMIZED_ORIGINAL_ROOT == "optimized-original"

\* The characters of a configured directory name.
Chars(name) ==
    CASE name = "./to-convert" -> <<46, 47, 116, 111, 45, 99, 111, 110, 118, 101, 114, 116>>
      [] name = "optimized" -> <<111, 112, 116, 105, 109, 105, 122, 101, 100>>
      [] name = "errored" -> <<101, 114, 114, 111, 114, 101, 100>>
      [] name = "in-progress" -> <<105, 110, 45, 112, 114, 111, 103, 114, 101, 115, 115>>
      [] name = "done" -> <<100, 111, 110, 101>>
      [] name = "optimized-bad" -> <<111, 112, 116, 105, 109, 105, 122, 101, 100, 45, 98, 97, 100>>
      [] name = "optimized-original" ->
           <<111, 112, 116, 105, 109, 105, 122, 101, 100, 45, 111, 114, 105, 103, 105, 110, 97, 108>>

\* os.sep and the extension separator, as character sequences.
SEP == <<47>>
DOT == <<46>>
\* '.mp4', the extension process_video gives to every output name.
MP4 == <<46, 109, 112, 52>>

\* '.mp4', '.avi', '.mkv', '.mov', '.flv', '.wmv', '.mpeg', '.mpg', '.m4v'
VIDEO_EXTENSIONS ==
    { <<46, 109, 112, 52>>, <<46, 97, 118, 105>>, <<46, 109, 107, 118>>,
      <<46, 109, 111, 118>>, <<46, 102, 108, 118>>, <<46, 119, 109, 118>>,
      <<46, 109, 112, 101, 103>>, <<46, 109, 112, 103>>, <<46, 109, 52, 118>> }

\* The outcome directories, in the order of check_skip_directory.
SkipDirs ==
    << OUTPUT_ROOT, ERRORED_ROOT, IN_PROGRESS_ROOT, DONE_ROOT,
       OPTIMIZED_BAD_ROOT, OPTIMIZED_ORIGINAL_ROOT >>

\* The relative paths at which video files arrive under the watched root:
\* 'a.mp4', 'a.mkv', 's/c.MP4'.
ArrivalPaths ==
    { <<97, 46, 109, 112, 52>>, <<97, 46, 109, 107, 118>>, <<115, 47, 99, 46, 77, 80, 52>> }

\* The relative paths of three files that lie under the watched root from the
\* start: 'done/d.mp4' and 's/optimized/e.mkv', in directories named like an
\* outcome directory, and 'n.txt', which is no video file.
OtherPaths ==
    { <<100, 111, 110, 101, 47, 100, 46, 109, 112, 52>>,
      <<115, 47, 111, 112, 116, 105, 109, 105, 122, 101, 100, 47, 101, 46, 109, 107, 118>>,
      <<110, 46, 116, 120, 116>> }

\* ------------------------------------------------------ string functions
\* str.lower on one character code.
LowerChar(c) == IF c \in 65..90 THEN c + 32 ELSE c

\* str.lower.
Lower(s) == [i \in 1..Len(s) |-> LowerChar(s[i])]

\* The greatest index of character c in s, 0 when there is none (str.rfind + 1).
LastIndex(s, c) ==
    LET hits == {i \in 1..Len(s) : s[i] = c}
    IN  IF hits = {} THEN 0 ELSE CHOOSE i \in hits : \A j \in hits : j <= i

\* str.startswith.
StartsWith(s, prefix) ==
    /\ Len(prefix) <= Len(s)
    /\ SubSeq(s, 1, Len(prefix)) = prefix

\* The order of Python's str comparison: lexicographic on the code points.
StrLess(s, t) ==
    \E k \in 1..(Len(t)) :
        /\ \A i \in 1..(k - 1) : i <= Len(s) /\ s[i] = t[i]
        /\ \/ k = Len(s) + 1
           \/ k <= Len(s) /\ s[k] < t[k]

\* os.path.dirname of a relative path: what precedes the last separator.
DirName(rel) ==
    LET k == LastIndex(rel, SEP[1])
    IN  IF k = 0 THEN <<>> ELSE SubSeq(rel, 1, k - 1)

\* os.path.basename.
BaseName(rel) == SubSeq(rel, LastIndex(rel, SEP[1]) + 1, Len(rel))

\* The index of the dot that starts the extension of rel, 0 when rel has no
\* extension: os.path.splitext takes the last dot after the last separator,
\* provided a character other than a dot stands between the two.
ExtDot(rel) ==
    LET sepAt == LastIndex(rel, SEP[1])
        dotAt == LastIndex(rel, DOT[1])
    IN  IF dotAt > sepAt /\ \E i \in (sepAt + 1)..(dotAt - 1) : rel[i] # DOT[1]
        THEN dotAt ELSE 0

\* os.path.splitext(rel)[0].
SplitExtBase(rel) == IF ExtDot(rel) = 0 THEN rel ELSE SubSeq(rel, 1, ExtDot(rel) - 1)

\* os.path.splitext(rel)[1].
SplitExtExt(rel) == IF ExtDot(rel) = 0 THEN <<>> ELSE SubSeq(rel, ExtDot(rel), Len(rel))

\* The directory components of a relative path, the file name left out.
RECURSIVE DirSegments(_)
DirSegments(rel) ==
    LET seps == {i \in 1..Len(rel) : rel[i] = SEP[1]}
    IN  IF seps = {} THEN {}
        ELSE LET k == CHOOSE i \in seps : \A j \in seps : i <= j
             IN  {SubSeq(rel, 1, k - 1)} \cup DirSegments(SubSeq(rel, k + 1, Len(rel)))

\* pathlib's Path(p).suffix: from the last dot of the file name on, empty when
\* that dot is the first or the last character of the name.
Suffix(rel) ==
    LET name == BaseName(rel)
        i == LastIndex(name, DOT[1])
    IN  IF 1 < i /\ i < Len(name) THEN SubSeq(name, i, Len(name)) ELSE <<>>

\* Utils.is_video_file.
is_video_file(rel) == Lower(Suffix(rel)) \in VIDEO_EXTENSIONS

\* list.reverse.
Reverse(q) == [i \in 1..Len(q) |-> q[Len(q) + 1 - i]]

\* The elements of a sequence.
Range(q) == {q[i] : i \in 1..Len(q)}

\* ------------------------------------------------------------------ state
VARIABLES
    fs,               \* the files on disk: records [root, rel, kind, src, gen, size, complete]
    dirs,             \* the directories created by os.makedirs: pairs [root, rel]
    arrivals,         \* per arrival path, the number of files that arrived there
    reverse_order,    \* config.REVERSE_ORDER
    processed_files,  \* main: processed_files
    file_queue,       \* main: file_queue
    queued_files,     \* main: queued_files
    total_success,    \* main: total_success
    total_error,      \* main: total_error
    total_skipped,    \* main: total_skipped
    total_size_issue, \* main: total_size_issue
    pbar_n,           \* main: pbar.n
    pbar_total,       \* main: pbar.total
    pc,               \* the statement of main / process_video the program is at
    input_path,       \* the path taken from the queue (current_file, input_path)
    retcode,          \* process_video: retcode, -1 before the transcoder has exited
    result,           \* the string process_video returned
    fault_budget,     \* the file-system operations the environment may let fail
    faults,           \* the file-system operations that failed for external reasons
    invocations,      \* history: the paths process_video was called with, in order
    file_pbar_n,      \* process_video: file_pbar.n
    probe,            \* _get_video_resolution: what the run of ffprobe gave
    command_vf,       \* _build_ffmpeg_command: the filter arguments of command
    transcoder,       \* per relative path, how the transcoder behaves on the file there
    batch_pc,         \* convert.py: the statement of main the batch run is at
    batch_fs,         \* convert.py: the files on the disk of the batch run
    batch_dirs,       \* convert.py: the directories its os.makedirs created
    batch_processed_files,  \* convert.py main: processed_files
    batch_video_files,      \* convert.py main: the paths of video_files still to come in the for loop
    batch_invocations,      \* history: the paths convert.py's process_video was called with
    success_count,    \* convert.py main: success_count
    error_count,      \* convert.py main: error_count
    skipped_count,    \* convert.py main: skipped_count
    size_issue_count, \* convert.py main: size_issue_count
    batch_pbar_n,     \* convert.py main: pbar.n
    batch_pbar_total  \* convert.py main: pbar.total

vars ==
    << fs, dirs, arrivals, reverse_order, fault_budget, processed_files, file_queue, queued_files,
       total_success, total_error, total_skipped, total_size_issue, pbar_n, pbar_total,
       pc, input_path, retcode, result, faults, invocations,
       file_pbar_n, probe, command_vf,
       transcoder, batch_pc, batch_fs, batch_dirs, batch_processed_files,
       batch_video_files, batch_invocations, success_count, error_count,
       skipped_count, size_issue_count, batch_pbar_n, batch_pbar_total >>

counters == << total_success, total_error, total_skipped, total_size_issue >>
queue == << file_queue, queued_files >>
pbar == << pbar_n, pbar_total >>
disk == << fs, dirs >>
config == << reverse_order, fault_budget >>
command == << probe, command_vf >>
batch == << batch_pc, batch_fs, batch_dirs, batch_processed_files, batch_video_files,
           batch_invocations, success_count, error_count, skipped_count,
           size_issue_count, batch_pbar_n, batch_pbar_total >>
entry == << transcoder, batch >>
queue_loop ==
    << fs, dirs, arrivals, reverse_order, fault_budget, processed_files, file_queue,
       queued_files, total_success, total_error, total_skipped, total_size_issue,
       pbar_n, pbar_total, pc, input_path, retcode, result, faults, invocations,
       file_pbar_n, probe, command_vf >>

\* ------------------------------------------------------------ file system
\* os.path.join(root, rel).
Join(root, rel) == [root |-> root, rel |-> rel]

\* No path: the value of input_path while no file is being processed.
NoPath == Join("", <<>>)

\* The characters of the path string of a location.
PathStr(loc) == Chars(loc.root) \o SEP \o loc.rel

\* os.path.exists, on the files F.
Exists(F, loc) == \E e \in F : e.root = loc.root /\ e.rel = loc.rel

\* The file of F at a location.
FileAt(F, loc) == CHOOSE e \in F : e.root = loc.root /\ e.rel = loc.rel

\* os.remove: F without the file at loc.
Removed(F, loc) == {e \in F : ~(e.root = loc.root /\ e.rel = loc.rel)}

\* Mutant of Moved: the file is copied to dst and stays at src.
Moved_copy(F, src, dst) ==
    Removed(F, dst) \cup {[FileAt(F, src) EXCEPT !.root = dst.root, !.rel = dst.rel]}

\* shutil.move / os.rename of a file: it leaves src and is at dst, replacing
\* the file that was there.
Moved(F, src, dst) ==
    Removed(Removed(F, src), dst)
        \cup {[FileAt(F, src) EXCEPT !.root = dst.root, !.rel = dst.rel]}

\* os.path.getsize.
GetSize(F, loc) == FileAt(F, loc).size

\* os.makedirs(os.path.dirname(loc), exist_ok=True), on the directories D.
MakeDirs(D, loc) == D \cup {Join(loc.root, DirName(loc.rel))}

\* The outcomes a file-system operation may have: TRUE (done), and FALSE (it
\* raises OSError) as long as the environment has failures left.
Outcomes == IF faults < fault_budget THEN {TRUE, FALSE} ELSE {TRUE}

\* The count of external failures after operations with the outcomes oks.
Failed(oks) == faults + Cardinality({i \in 1..Len(oks) : ~oks[i]})

\* ------------------------------------------------------------ FileManager
\* Mutant of _move_file: the file leaves its source and does not appear at
\* its destination.
_move_file_drops(F, D, source_path, dest_path, ok) ==
    LET done == ok /\ Exists(F, source_path)
    IN  [ fs     |-> IF done THEN Removed(F, source_path) ELSE F,
          dirs   |-> MakeDirs(D, dest_path),
          raised |-> ~done ]

\* FileManager._move_file: the directories of dest are made, then the file is
\* moved; it raises when the source is missing or the move fails (ok = FALSE).
\* The result is the disk afterwards and whether an exception was raised.
_move_file(F, D, source_path, dest_path, ok) ==
    LET done == ok /\ Exists(F, source_path)
    IN  [ fs     |-> IF done THEN Moved(F, source_path, dest_path) ELSE F,
          dirs   |-> MakeDirs(D, dest_path),
          raised |-> ~done ]

\* FileManager.get_in_progress_path.
get_in_progress_path(rel) == Join(IN_PROGRESS_ROOT, rel)

\* FileManager.get_output_path.
get_output_path(rel) == Join(OUTPUT_ROOT, rel)

\* Mutant of move_to_errored: the directories are made and the file is left
\* where it is, without any exception.
move_to_errored_unmoved(F, D, source_path, rel, ok) ==
    [ fs |-> F, dirs |-> MakeDirs(D, Join(ERRORED_ROOT, rel)), raised |-> FALSE ]

\* FileManager.move_to_errored.
move_to_errored(F, D, source_path, rel, ok) ==
    _move_file(F, D, source_path, Join(ERRORED_ROOT, rel), ok)

\* FileManager.move_to_done.
move_to_done(F, D, source_path, rel, ok) ==
    _move_file(F, D, source_path, Join(DONE_ROOT, rel), ok)

\* FileManager.move_to_optimized_bad.
move_to_optimized_bad(F, D, optimized_path, rel, ok) ==
    _move_file(F, D, optimized_path, Join(OPTIMIZED_BAD_ROOT, rel), ok)

\* FileManager.move_to_optimized_original.
move_to_optimized_original(F, D, original_path, rel, ok) ==
    _move_file(F, D, original_path, Join(OPTIMIZED_ORIGINAL_ROOT, rel), ok)

\* FileManager.compare_file_sizes.
compare_file_sizes(F, original_path, optimized_path) ==
    GetSize(F, original_path) < GetSize(F, optimized_path)

\* The sequence of the paths of S in ascending order: list.sort.
RECURSIVE SortPaths(_)
SortPaths(S) ==
    IF S = {} THEN <<>>
    ELSE LET least == CHOOSE x \in S : \A y \in S : ~StrLess(PathStr(y), PathStr(x))
         IN  <<least>> \o SortPaths(S \ {least})

\* Mutant of Walked: only the directories named like the in-progress tree are
\* pruned from the walk.
Walked_pruning_staging_only(F) ==
    {e \in F : /\ e.root = SOURCE_ROOT
               /\ Chars(IN_PROGRESS_ROOT) \notin DirSegments(e.rel)}

\* Mutant of Walked: the walk descends into every directory.
Walked_unpruned(F) == {e \in F : e.root = SOURCE_ROOT}

\* The files os.walk reaches from SOURCE_ROOT: those with no directory of
\* their path named like an outcome directory (dirs[:] prunes the walk).
Walked(F) ==
    {e \in F : /\ e.root = SOURCE_ROOT
               /\ DirSegments(e.rel) \cap {Chars(SkipDirs[i]) : i \in 1..Len(SkipDirs)} = {}}

\* Mutant of collect_video_files: the list is never reversed.
collect_video_files_unreversed(F, processed, reverse) ==
    SortPaths({Join(SOURCE_ROOT, e.rel) : e \in {x \in Walked(F) : is_video_file(x.rel)}}
                 \ processed)

\* Mutant of collect_video_files: processed paths are not left out.
collect_video_files_unfiltered(F, processed, reverse) ==
    LET video_files ==
            {Join(SOURCE_ROOT, e.rel) : e \in {x \in Walked(F) : is_video_file(x.rel)}}
    IN  IF reverse THEN Reverse(SortPaths(video_files)) ELSE SortPaths(video_files)

\* Mutant of collect_video_files: files of every extension are returned.
collect_video_files_any(F, processed, reverse) ==
    LET video_files == {Join(SOURCE_ROOT, e.rel) : e \in Walked(F)} \ processed
    IN  IF reverse THEN Reverse(SortPaths(video_files)) ELSE SortPaths(video_files)

\* FileManager.collect_video_files.
collect_video_files(F, processed, reverse) ==
    LET video_files ==
            {Join(SOURCE_ROOT, e.rel) : e \in {x \in Walked(F) : is_video_file(x.rel)}}
                \ processed
    IN  IF reverse THEN Reverse(SortPaths(video_files)) ELSE SortPaths(video_files)

\* FileManager.get_relative_path: os.path.relpath(input_path, SOURCE_ROOT).
get_relative_path(path) == path.rel

\* FileManager.check_skip_directory: TRUE when it returns a skip reason.
check_skip_directory(rel) ==
    \E i \in 1..Len(SkipDirs) : StartsWith(rel, Chars(SkipDirs[i]) \o SEP)

\* ---------------------------------------------------------- process_video
\* process_video: rel_path.
rel_path == get_relative_path(input_path)

\* process_video: temp_output_path.
temp_output_path == get_in_progress_path(SplitExtBase(rel_path) \o MP4)

\* process_video: final_output_path.
final_output_path == get_output_path(SplitExtBase(rel_path) \o MP4)

\* Mutant of command_output: the transcoder writes to the final path.
command_output_final == final_output_path

\* _build_ffmpeg_command: the output path, the last word of the command.
command_output == temp_output_path

\* rel_path.replace(".mp4", ".mp4"): every occurrence replaced by itself.
ReplaceMp4(rel) == rel

\* Mutant of Exception: a string that starts with none of the words main
\* looks for.
Exception_unrecognised == [prefix |-> "Unexpected", smaller |-> FALSE]

\* The strings process_video returns: their first word, and whether the text
\* contains "Original file is smaller".
Processed == [prefix |-> "Processed", smaller |-> FALSE]
Error == [prefix |-> "Error", smaller |-> FALSE]
Exception == [prefix |-> "Exception", smaller |-> FALSE]
NoResult == [prefix |-> "", smaller |-> FALSE]

\* Mutant of _handle_ffmpeg_error: the staging file is not removed.
_handle_ffmpeg_error_keeps_temp(F, D, rmOk, mvOk) ==
    move_to_errored(F, D, input_path, rel_path, mvOk)

\* VideoProcessor._handle_ffmpeg_error: the staging file is removed when it
\* exists, then the original is moved to the errored tree.  rmOk and mvOk are
\* the outcomes of os.remove and of the move.
_handle_ffmpeg_error(F, D, rmOk, mvOk) ==
    IF Exists(F, temp_output_path) /\ ~rmOk
    THEN [fs |-> F, dirs |-> D, raised |-> TRUE]
    ELSE move_to_errored(Removed(F, temp_output_path), D, input_path, rel_path, mvOk)

\* Mutant of _handle_unexpected_error: the staging file is not removed.
_handle_unexpected_error_keeps_temp(F, D, rmOk, mvOk) ==
    move_to_errored(F, D, input_path, rel_path, mvOk)

\* VideoProcessor._handle_unexpected_error: the same two steps.
_handle_unexpected_error(F, D, rmOk, mvOk) ==
    IF Exists(F, temp_output_path) /\ ~rmOk
    THEN [fs |-> F, dirs |-> D, raised |-> TRUE]
    ELSE move_to_errored(Removed(F, temp_output_path), D, input_path, rel_path, mvOk)

\* The outcomes of the two operations of an error handler that differ in
\* effect: os.remove can fail only on an existing staging file, and the move
\* is not reached when os.remove raised.
HandlerOutcomes(rmOk, mvOk) ==
    /\ rmOk \in Outcomes /\ mvOk \in Outcomes
    /\ ~rmOk => Exists(fs, temp_output_path) /\ mvOk
    /\ Failed(<<rmOk, mvOk>>) <= fault_budget

\* A field of the line ffprobe prints, split at the commas: whether it is a
\* string of digits (str.isdigit) and the number it then denotes (int).
Digits(n) == [isdigit |-> TRUE, value |-> n]
NotDigits == [isdigit |-> FALSE, value |-> 0]

\* What a run of ffprobe for the resolution can give: its output line, as
\* the fields between commas, or an exception of subprocess.run.
Stdout(fields) == [kind |-> "stdout", fields |-> fields]
CalledProcessError == [kind |-> "CalledProcessError", fields |-> <<>>]
FileNotFoundError == [kind |-> "FileNotFoundError", fields |-> <<>>]

\* No run of ffprobe: the value of probe outside _build_ffmpeg_command.
NoProbe == [kind |-> "", fields |-> <<>>]

\* The outcomes of ffprobe the model draws from: '1280,720', '1920,1080',
\* '2560,1080', '1920,1081', '3840,2160', '1080,1920', '' and 'N/A' (one
\* field, no digits), '1920,N/A', 'N/A,2160', '1920,1080,' (three fields),
\* '2160' (one field), and the two exceptions.
ProbeOutcomes ==
    { Stdout(<< Digits(1280), Digits(720) >>),
      Stdout(<< Digits(1920), Digits(1080) >>),
      Stdout(<< Digits(2560), Digits(1080) >>),
      Stdout(<< Digits(1920), Digits(1081) >>),
      Stdout(<< Digits(3840), Digits(2160) >>),
      Stdout(<< Digits(1080), Digits(1920) >>),
      Stdout(<< NotDigits >>),
      Stdout(<< Digits(1920), NotDigits >>),
      Stdout(<< NotDigits, Digits(2160) >>),
      Stdout(<< Digits(1920), Digits(1080), NotDigits >>),
      Stdout(<< Digits(2160) >>),
      CalledProcessError,
      FileNotFoundError }

\* VideoProcessor._get_video_resolution: << width, height >>, or << >> for
\* None.
_get_video_resolution(p) ==
    IF p.kind = "stdout"
    THEN LET dimensions == p.fields
         IN  IF Len(dimensions) = 2 /\ dimensions[1].isdigit /\ dimensions[2].isdigit
             THEN << dimensions[1].value, dimensions[2].value >>
             ELSE << >>
    ELSE << >>

\* Mutant of _build_ffmpeg_command: a height of 1080 is scaled too.
_build_ffmpeg_command_from_1080(p) ==
    LET resolution == _get_video_resolution(p)
    IN  IF resolution # << >> /\ resolution[2] >= 1080
        THEN << "-vf", "scale=-2:1080" >> ELSE << >>

\* VideoProcessor._build_ffmpeg_command: the filter arguments the command
\* gets between the video and the audio settings, for the outcome p of the
\* resolution probe.
_build_ffmpeg_command(p) ==
    LET resolution == _get_video_resolution(p)
    IN  IF resolution # << >> /\ resolution[2] > 1080
        THEN << "-vf", "scale=-2:1080" >> ELSE << >>

\* The frame numbers the transcoder prints in its 'frame=' progress lines.
FrameTokens == {3, 5, 8}

\* The file the transcoder writes for the current input.
OutputFile(size, complete) ==
    [ root |-> command_output.root, rel |-> command_output.rel, kind |-> "out",
      src |-> rel_path, gen |-> FileAt(fs, input_path).gen,
      size |-> size, complete |-> complete ]

\* ------------------------------------------------------------------- main
\* discover_new_files.
discover_new_files(F, processed, reverse) == collect_video_files(F, processed, reverse)

\* Mutant of NewFiles: the queued paths are not left out.
NewFiles_unqueued(all_discovered, queued, processed) ==
    SelectSeq(all_discovered, LAMBDA f : f \notin processed)

\* Mutant of NewFiles: nothing is appended during a batch.
NewFiles_none(all_discovered, queued, processed) == <<>>

\* main, line 136: the discovered files neither queued nor processed.
NewFiles(all_discovered, queued, processed) ==
    SelectSeq(all_discovered, LAMBDA f : f \notin queued /\ f \notin processed)

\* The number of files that have arrived so far.
Arrived == Cardinality({<<p, g>> \in ArrivalPaths \X (1..MaxGen) : g <= arrivals[p]})

\* The file at rel under the watched root that is the gen-th to arrive there.
Original(rel, gen, size) ==
    [ root |-> SOURCE_ROOT, rel |-> rel, kind |-> "orig", src |-> rel, gen |-> gen,
      size |-> size, complete |-> TRUE ]

\* How the transcoder behaves on a file: the executable is missing (Popen
\* raises), or it exits with status 1, or with status 0 and an output of the
\* given size.
Transcodes ==
    {[found |-> FALSE, code |-> -1, size |-> 1], [found |-> TRUE, code |-> 1, size |-> 1]}
        \cup {[found |-> TRUE, code |-> 0, size |-> n] : n \in 1..MaxSize}

\* No behaviour is laid down.
NoTranscode == [found |-> FALSE, code |-> -1, size |-> 1]

\* convert.py is not run, and the transcoder is free.
EntryIdle ==
    /\ transcoder = [p \in ArrivalPaths |-> NoTranscode]
    /\ batch_pc = "off"
    /\ batch_fs = {}
    /\ batch_dirs = {}
    /\ batch_processed_files = {}
    /\ batch_video_files = <<>>
    /\ batch_invocations = <<>>
    /\ success_count = 0
    /\ error_count = 0
    /\ skipped_count = 0
    /\ size_issue_count = 0
    /\ batch_pbar_n = 0
    /\ batch_pbar_total = 0

\* The state after main has built its objects and variables (lines 62-86);
\* no file-system operation fails.
Init ==
    /\ fs = {Original(rel, 1, 1) : rel \in OtherPaths}
    /\ dirs = {}
    /\ arrivals = [p \in ArrivalPaths |-> 0]
    /\ reverse_order \in BOOLEAN
    /\ processed_files = {}
    /\ file_queue = <<>>
    /\ queued_files = {}
    /\ total_success = 0
    /\ total_error = 0
    /\ total_skipped = 0
    /\ total_size_issue = 0
    /\ pbar_n = 0
    /\ pbar_total = 0
    /\ pc = "top"
    /\ input_path = NoPath
    /\ retcode = -1
    /\ result = NoResult
    /\ fault_budget = 0
    /\ faults = 0
    /\ invocations = <<>>
    /\ file_pbar_n = 0
    /\ probe = NoProbe
    /\ command_vf = <<>>
    /\ EntryIdle

\* The environment: a file of some size appears under the watched root, at a
\* path where there is none.  The program looks at the root only in its scans,
\* so arrivals are placed right before a scan (top, rescan): an arrival at
\* any other moment is seen by the same scan as one of these.
Arrive ==
    \E rel \in ArrivalPaths, size \in 1..MaxSize :
        /\ pc \in {"top", "rescan"}
        /\ Arrived < MaxFiles
        /\ arrivals[rel] < MaxGen
        /\ ~Exists(fs, Join(SOURCE_ROOT, rel))
        /\ arrivals' = [arrivals EXCEPT ![rel] = @ + 1]
        /\ fs' = fs \cup {Original(rel, arrivals[rel] + 1, size)}
        /\ UNCHANGED << dirs, config, entry, processed_files, queue, counters, pbar,
                        pc, input_path, retcode, result, faults, invocations,
                    file_pbar_n, command >>

\* Mutant of Scan: the loop goes to sleep whatever the scan would find.
Scan_sleeps_first ==
    /\ pc = "top"
    /\ pc' = "sleep"
    /\ UNCHANGED << disk, arrivals, config, entry, processed_files, queue, counters,
                    pbar, input_path, retcode, result, faults, invocations,
                    file_pbar_n, command >>

\* main, lines 89-106: with an empty queue the root is scanned; the files
\* found start a new batch, and when none is found the loop goes to sleep.
Scan ==
    /\ pc = "top"
    /\ IF file_queue = <<>>
       THEN LET new_files == discover_new_files(fs, processed_files, reverse_order)
            IN  IF new_files = <<>>
                THEN /\ pc' = "sleep"
                     /\ UNCHANGED << queue, pbar >>
                ELSE /\ file_queue' = file_queue \o new_files
                     /\ queued_files' = queued_files \cup Range(new_files)
                     /\ pbar_n' = 0
                     /\ pbar_total' = Len(file_queue')
                     /\ pc' = "inner"
       ELSE /\ pc' = "inner"
            /\ UNCHANGED << queue, pbar >>
    /\ UNCHANGED << disk, arrivals, config, entry, processed_files, counters,
                    input_path, retcode, result, faults, invocations,
                    file_pbar_n, command >>

\* main, lines 97-98: time.sleep(CHECK_INTERVAL), then the loop starts over.
Sleep ==
    /\ pc = "sleep"
    /\ pc' = "top"
    /\ UNCHANGED << disk, arrivals, config, entry, processed_files, queue, counters,
                    pbar, input_path, retcode, result, faults, invocations,
                    file_pbar_n, command >>

\* Mutant of PopFile: the path leaves file_queue and stays in queued_files.
PopFile_undiscarded ==
    /\ pc = "inner"
    /\ file_queue # <<>>
    /\ input_path' = Head(file_queue)
    /\ file_queue' = Tail(file_queue)
    /\ queued_files' = queued_files
    /\ pc' = "file"
    /\ UNCHANGED << disk, arrivals, config, entry, processed_files, counters, pbar,
                    retcode, result, faults, invocations,
                    file_pbar_n, command >>

\* main, lines 109-111: the next path leaves the queue.
PopFile ==
    /\ pc = "inner"
    /\ file_queue # <<>>
    /\ input_path' = Head(file_queue)
    /\ file_queue' = Tail(file_queue)
    /\ queued_files' = queued_files \ {Head(file_queue)}
    /\ pc' = "file"
    /\ UNCHANGED << disk, arrivals, config, entry, processed_files, counters, pbar,
                    retcode, result, faults, invocations,
                    file_pbar_n, command >>

\* main, line 109: the queue is empty, the inner loop ends.
QueueDrained ==
    /\ pc = "inner"
    /\ file_queue = <<>>
    /\ pc' = "top"
    /\ UNCHANGED << disk, arrivals, config, entry, processed_files, queue, counters,
                    pbar, input_path, retcode, result, faults, invocations,
                    file_pbar_n, command >>

\* Mutant of relative_path_error: the path is not marked processed.
relative_path_error_unmarked(processed, path) ==
    [ error_count |-> 1, processed_files |-> processed ]

\* process_file_from_queue, lines 28-31: get_relative_path raised ValueError;
\* what the function has counted and marked when it returns.
relative_path_error(processed, path) ==
    [ error_count |-> 1, processed_files |-> processed \cup {path} ]

\* process_file_from_queue, lines 24-43, with lines 118-131 of main for the
\* file that is not passed on: when get_relative_path raises ValueError (an
\* outcome of the environment, ok = FALSE) the path is counted as an error,
\* a path inside an outcome directory is counted as skipped, any other path
\* is passed to process_video.
StartFile ==
    /\ pc = "file"
    /\ retcode' = -1
    /\ result' = NoResult
    /\ \E ok \in Outcomes :
        /\ faults' = Failed(<<ok>>)
        /\ IF ~ok
           THEN LET r == relative_path_error(processed_files, input_path)
                IN  /\ total_error' = total_error + r.error_count
                    /\ processed_files' = r.processed_files
                    /\ pbar_n' = pbar_n + 1
                    /\ pc' = "rescan"
                    /\ UNCHANGED << total_skipped, invocations >>
           ELSE IF check_skip_directory(rel_path)
           THEN /\ total_skipped' = total_skipped + 1
                /\ processed_files' = processed_files \cup {input_path}
                /\ pbar_n' = pbar_n + 1
                /\ pc' = "rescan"
                /\ UNCHANGED << total_error, invocations >>
           ELSE /\ invocations' = Append(invocations, input_path)
                /\ pc' = "setup"
                /\ UNCHANGED << total_error, total_skipped, processed_files, pbar_n >>
    /\ UNCHANGED << disk, arrivals, config, entry, queue, total_success,
                    total_size_issue, pbar_total, input_path,
                    file_pbar_n, command >>

\* process_video, lines 155-178: the directories of the staging and of the
\* final path are made (a failing os.makedirs raises outside the try block),
\* the command is built after the resolution probe, and the progress bar of
\* the file is created with its counter at 0.
Setup ==
    /\ pc = "setup"
    /\ \E ok \in Outcomes, p \in ProbeOutcomes :
        /\ faults' = Failed(<<ok>>)
        /\ IF ok
           THEN /\ dirs' = MakeDirs(MakeDirs(dirs, temp_output_path), final_output_path)
                /\ probe' = p
                /\ command_vf' = _build_ffmpeg_command(p)
                /\ pc' = "popen"
           ELSE /\ dirs' = dirs
                /\ UNCHANGED command
                /\ pc' = "crashed"
    /\ file_pbar_n' = 0
    /\ UNCHANGED << fs, arrivals, config, entry, processed_files, queue, counters,
                    pbar, input_path, retcode, result, invocations >>

\* process_video, lines 182-187: the transcoder is started with the command,
\* or the executable is missing and Popen raises FileNotFoundError.  The
\* command is not read afterwards.
Popen ==
    /\ pc = "popen"
    /\ \E found \in BOOLEAN : pc' = IF found THEN "stream" ELSE "except"
    /\ probe' = NoProbe
    /\ command_vf' = << >>
    /\ UNCHANGED << disk, arrivals, config, entry, processed_files, queue, counters,
                    pbar, input_path, retcode, result, faults, invocations,
                    file_pbar_n >>

\* The transcoder, while process_video reads its output (lines 190-200):
\* it writes its output file, overwriting what is there (-y).
TranscoderWrites ==
    /\ pc = "stream"
    /\ fs' = Removed(fs, command_output) \cup {OutputFile(0, FALSE)}
    /\ UNCHANGED << dirs, arrivals, config, entry, processed_files, queue, counters,
                    pbar, pc, input_path, retcode, result, faults, invocations,
                    file_pbar_n, command >>

\* process_video, lines 194-200: a progress line of the transcoder is read
\* and the bar is updated by the difference between the frame number of the
\* line and its counter; tqdm.update(k) adds k to the counter.
ReadFrame ==
    /\ pc = "stream"
    /\ \E current_frame \in FrameTokens :
        file_pbar_n' = file_pbar_n + (current_frame - file_pbar_n)
    /\ UNCHANGED << disk, arrivals, config, entry, processed_files, queue, counters,
                    pbar, pc, input_path, retcode, result, faults, invocations,
                    command >>

\* The transcoder exits (lines 192-206): with status 0 its output file is
\* complete, with another status whatever it wrote is left as it is.  The
\* bar of the file is closed (line 204) and its counter not read again.
TranscoderExits ==
    /\ pc = "stream"
    /\ \E code \in {0, 1}, size \in 1..MaxSize :
        /\ code # 0 => size = 1
        /\ retcode' = code
        /\ fs' = IF code = 0
                 THEN Removed(fs, command_output) \cup {OutputFile(size, TRUE)}
                 ELSE fs
        /\ pc' = IF code = 0 THEN "rename" ELSE "ffmpeg_error"
    /\ file_pbar_n' = 0
    /\ UNCHANGED << dirs, arrivals, config, entry, processed_files, queue, counters,
                    pbar, input_path, result, faults, invocations, command >>

\* process_video, lines 206-208: the transcoder failed.
HandleFfmpegError ==
    /\ pc = "ffmpeg_error"
    /\ \E rmOk, mvOk \in BOOLEAN :
        /\ HandlerOutcomes(rmOk, mvOk)
        /\ faults' = Failed(<<rmOk, mvOk>>)
        /\ LET h == _handle_ffmpeg_error(fs, dirs, rmOk, mvOk)
           IN  /\ fs' = h.fs
               /\ dirs' = h.dirs
               /\ result' = IF h.raised THEN result ELSE Error
               /\ pc' = IF h.raised THEN "except" ELSE "returned"
    /\ UNCHANGED << arrivals, config, entry, processed_files, queue, counters, pbar,
                    input_path, retcode, invocations,
                    file_pbar_n, command >>

\* process_video, line 213: the staging file becomes the final output.
Rename ==
    /\ pc = "rename"
    /\ \E ok \in Outcomes :
        /\ faults' = Failed(<<ok>>)
        /\ IF ok /\ Exists(fs, temp_output_path)
           THEN /\ fs' = Moved(fs, temp_output_path, final_output_path)
                /\ pc' = "compare"
           ELSE /\ fs' = fs
                /\ pc' = "except"
    /\ UNCHANGED << dirs, arrivals, config, entry, processed_files, queue, counters,
                    pbar, input_path, retcode, result, invocations,
                    file_pbar_n, command >>

\* process_video, line 215: the sizes decide the branch.
Compare ==
    /\ pc = "compare"
    /\ pc' = IF compare_file_sizes(fs, input_path, final_output_path)
             THEN "move_bad" ELSE "move_done"
    /\ UNCHANGED << disk, arrivals, config, entry, processed_files, queue, counters,
                    pbar, input_path, retcode, result, faults, invocations,
                    file_pbar_n, command >>

\* process_video, line 217: the larger output goes to optimized-bad.
MoveBad ==
    /\ pc = "move_bad"
    /\ \E ok \in Outcomes :
        /\ faults' = Failed(<<ok>>)
        /\ LET m == move_to_optimized_bad(fs, dirs, final_output_path,
                                          ReplaceMp4(rel_path), ok)
           IN  /\ fs' = m.fs
               /\ dirs' = m.dirs
               /\ pc' = IF m.raised THEN "except" ELSE "move_original"
    /\ UNCHANGED << arrivals, config, entry, processed_files, queue, counters, pbar,
                    input_path, retcode, result, invocations,
                    file_pbar_n, command >>

\* process_video, line 218: the original goes to optimized-original.
MoveOriginal ==
    /\ pc = "move_original"
    /\ \E ok \in Outcomes :
        /\ faults' = Failed(<<ok>>)
        /\ LET m == move_to_optimized_original(fs, dirs, input_path, rel_path, ok)
           IN  /\ fs' = m.fs
               /\ dirs' = m.dirs
               /\ pc' = IF m.raised THEN "except" ELSE "remove_final"
    /\ UNCHANGED << arrivals, config, entry, processed_files, queue, counters, pbar,
                    input_path, retcode, result, invocations,
                    file_pbar_n, command >>

\* process_video, lines 219 and 223: os.remove(final_output_path) raises
\* FileNotFoundError when no file is at that path.
RemoveFinal ==
    /\ pc = "remove_final"
    /\ IF Exists(fs, final_output_path)
       THEN /\ fs' = Removed(fs, final_output_path)
            /\ result' = Processed
            /\ pc' = "returned"
       ELSE /\ fs' = fs
            /\ result' = result
            /\ pc' = "except"
    /\ UNCHANGED << dirs, arrivals, config, entry, processed_files, queue, counters,
                    pbar, input_path, retcode, faults, invocations,
                    file_pbar_n, command >>

\* process_video, lines 221 and 223: the original goes to done.
MoveDone ==
    /\ pc = "move_done"
    /\ \E ok \in Outcomes :
        /\ faults' = Failed(<<ok>>)
        /\ LET m == move_to_done(fs, dirs, input_path, rel_path, ok)
           IN  /\ fs' = m.fs
               /\ dirs' = m.dirs
               /\ result' = IF m.raised THEN result ELSE Processed
               /\ pc' = IF m.raised THEN "except" ELSE "returned"
    /\ UNCHANGED << arrivals, config, entry, processed_files, queue, counters, pbar,
                    input_path, retcode, invocations,
                    file_pbar_n, command >>

\* process_video, lines 225-228: the handler of every exception of the try
\* block; an exception raised in the handler itself leaves process_video,
\* process_file_from_queue and the loop of main (lines 144-145).
Except ==
    /\ pc = "except"
    /\ \E rmOk, mvOk \in BOOLEAN :
        /\ HandlerOutcomes(rmOk, mvOk)
        /\ faults' = Failed(<<rmOk, mvOk>>)
        /\ LET h == _handle_unexpected_error(fs, dirs, rmOk, mvOk)
           IN  /\ fs' = h.fs
               /\ dirs' = h.dirs
               /\ result' = IF h.raised THEN result ELSE Exception
               /\ pc' = IF h.raised THEN "crashed" ELSE "returned"
    /\ UNCHANGED << arrivals, config, entry, processed_files, queue, counters, pbar,
                    input_path, retcode, invocations,
                    file_pbar_n, command >>

\* process_file_from_queue, lines 44-57, and main, lines 118-131: the path is
\* marked processed and the result string picks the counter.
Returned ==
    /\ pc = "returned"
    /\ processed_files' = processed_files \cup {input_path}
    /\ total_success' =
         IF result.prefix = "Processed" /\ ~result.smaller
         THEN total_success + 1 ELSE total_success
    /\ total_size_issue' =
         IF result.prefix = "Processed" /\ result.smaller
         THEN total_size_issue + 1 ELSE total_size_issue
    /\ total_error' =
         IF result.prefix \in {"Error", "Exception"}
         THEN total_error + 1 ELSE total_error
    /\ pbar_n' = pbar_n + 1
    /\ pc' = "rescan"
    /\ UNCHANGED << disk, arrivals, config, entry, queue, total_skipped, pbar_total,
                    input_path, retcode, result, faults, invocations,
                    file_pbar_n, command >>

\* main, lines 134-142: the root is scanned again after every file, and what
\* is neither queued nor processed is appended to the queue.
Rescan ==
    /\ pc = "rescan"
    /\ LET all_discovered == discover_new_files(fs, processed_files, reverse_order)
           new_files == NewFiles(all_discovered, queued_files, processed_files)
       IN  /\ file_queue' = file_queue \o new_files
           /\ queued_files' = queued_files \cup Range(new_files)
           /\ pbar_total' = pbar_total + Len(new_files)
    /\ pc' = "inner"
    /\ UNCHANGED << disk, arrivals, config, entry, processed_files, counters, pbar_n,
                    input_path, retcode, result, faults, invocations,
                    file_pbar_n, command >>

\* main, lines 88-145: the run is interrupted from outside (KeyboardInterrupt
\* is raised in the loop).  No except clause catches it: the finally clause
\* closes the bar and the exception leaves main.  The effect is the same at
\* every statement of the loop; the interruption is taken where the loop
\* waits, in time.sleep and in the read of the transcoder's output.
Interrupt ==
    /\ pc \in {"sleep", "stream"}
    /\ pc' = "interrupted"
    /\ UNCHANGED << disk, arrivals, config, entry, processed_files, queue, counters,
                    pbar, input_path, retcode, result, faults, invocations,
                    file_pbar_n, command >>

Next ==
    \/ Arrive
    \/ Scan
    \/ Sleep
    \/ PopFile
    \/ QueueDrained
    \/ StartFile
    \/ Setup
    \/ Popen
    \/ TranscoderWrites
    \/ ReadFrame
    \/ TranscoderExits
    \/ HandleFfmpegError
    \/ Rename
    \/ Compare
    \/ MoveBad
    \/ MoveOriginal
    \/ RemoveFinal
    \/ MoveDone
    \/ Except
    \/ Returned
    \/ Rescan
    \/ Interrupt

Spec == Init /\ [][Next]_vars

\* The steps of the program and of the transcoder it waits for: every action
\* but the arrival of a file, the interruption, and the writes and progress
\* lines of a transcoder that is still running.
ProgramStep ==
    \/ Scan
    \/ Sleep
    \/ PopFile
    \/ QueueDrained
    \/ StartFile
    \/ Setup
    \/ Popen
    \/ TranscoderExits
    \/ HandleFfmpegError
    \/ Rename
    \/ Compare
    \/ MoveBad
    \/ MoveOriginal
    \/ RemoveFinal
    \/ MoveDone
    \/ Except
    \/ Returned
    \/ Rescan

\* The program has ended: an exception has left main.
Stopped == pc \in {"crashed", "interrupted"}

\* The program under fair scheduling: time.sleep returns, every transcoder
\* started exits, and the single thread of main goes on as long as it has a
\* statement to execute.  The last is weak fairness of ProgramStep, written
\* with what ENABLED <<ProgramStep>>_vars amounts to: at every statement but
\* the two of Stopped some step of ProgramStep can be taken.
SpecLive ==
    /\ Init /\ [][Next]_vars
    /\ WF_vars(Sleep)
    /\ ([]<>Stopped \/ []<><<ProgramStep>>_vars)

\* The same program where up to MaxFaults file-system operations fail.
InitFaults ==
    /\ fs = {Original(rel, 1, 1) : rel \in OtherPaths}
    /\ dirs = {}
    /\ arrivals = [p \in ArrivalPaths |-> 0]
    /\ reverse_order \in BOOLEAN
    /\ processed_files = {}
    /\ file_queue = <<>>
    /\ queued_files = {}
    /\ total_success = 0
    /\ total_error = 0
    /\ total_skipped = 0
    /\ total_size_issue = 0
    /\ pbar_n = 0
    /\ pbar_total = 0
    /\ pc = "top"
    /\ input_path = NoPath
    /\ retcode = -1
    /\ result = NoResult
    /\ fault_budget = MaxFaults
    /\ faults = 0
    /\ invocations = <<>>
    /\ file_pbar_n = 0
    /\ probe = NoProbe
    /\ command_vf = <<>>
    /\ EntryIdle

SpecFaults == InitFaults /\ [][Next]_vars

\* ------------------------------------------------------------ properties
\* The statements of main and process_video between which a file is in the
\* pipeline.
InPipeline ==
    { "file", "setup", "popen", "stream", "ffmpeg_error", "rename", "compare",
      "move_bad", "move_original", "remove_final", "move_done", "except", "returned" }

\* The pipeline was started on path p and has ended, by a return of
\* process_file_from_queue or by an exception of its own that left it; the
\* pipeline of the current path of an interrupted run is not taken as ended.
PipelineOver(p) ==
    /\ p \in Range(invocations)
    /\ p = input_path => pc \notin InPipeline \cup {"interrupted"}

\* The files on disk that are the original passed to the pipeline as path p
\* (the first file that arrived there).
OriginalsOf(p) == {e \in fs : e.kind = "orig" /\ e.src = p.rel /\ e.gen = 1}

\* The files on disk that the transcoder wrote for the original of path p.
OutputsOf(p) == {e \in fs : e.kind = "out" /\ e.src = p.rel /\ e.gen = 1}

\* The original of p is at its relative path under root, and nowhere else.
OnlyIn(p, root) ==
    /\ Cardinality(OriginalsOf(p)) = 1
    /\ \A e \in OriginalsOf(p) : e.root = root /\ e.rel = p.rel

\* The outcome of the pipeline for p is exactly one of the four.
OneOutcome(p) ==
    \/ OnlyIn(p, DONE_ROOT)
    \/ OnlyIn(p, ERRORED_ROOT)
    \/ /\ OnlyIn(p, OPTIMIZED_ORIGINAL_ROOT)
       /\ \E e \in OutputsOf(p) : e.root = OPTIMIZED_BAD_ROOT
    \/ /\ OnlyIn(p, SOURCE_ROOT)
       /\ check_skip_directory(p.rel)

\* C1: when the pipeline for a file has ended, by a return (the path is in
\* processed_files) or, in a run without any external I/O failure, by an
\* exception, the original is in exactly one of done, errored,
\* optimized-original (its output then in optimized-bad) or, skipped, still
\* under the watched root, and in no other tree.
C1_OutcomePartition ==
    \A p \in Range(invocations) :
        PipelineOver(p) /\ (p \in processed_files \/ faults = 0) => OneOutcome(p)

\* C1 witness: two pipelines have ended, one original is in done and one in
\* errored.
C1_Witness ==
    \E p, q \in Range(invocations) :
        /\ PipelineOver(p) /\ PipelineOver(q)
        /\ OnlyIn(p, DONE_ROOT) /\ OnlyIn(q, ERRORED_ROOT)

\* C2: no error of a file leaves process_file_from_queue: the loop of main is
\* never left by an exception, here in the runs without external I/O failure.
C2_NoErrorEscapes == pc # "crashed"

\* The elements of a sequence are pairwise different.
NoDuplicates(q) == \A i, j \in 1..Len(q) : q[i] = q[j] => i = j

\* C3: process_video is called at most once for a path, and file_queue never
\* holds a path twice.
C3_NoDoubleProcessing == NoDuplicates(invocations) /\ NoDuplicates(file_queue)

\* C3 witness: a scan has run during the batch while a file that it reports is
\* still queued.
C3_Witness ==
    /\ pc = "inner"
    /\ pbar_n >= 1
    /\ \E i \in 1..Len(file_queue) :
          file_queue[i] \in Range(discover_new_files(fs, processed_files, reverse_order))

\* The transcoder exited with 0 for path p and the original is smaller than
\* the output.
LargerOutput(p) ==
    \E o \in OriginalsOf(p), u \in OutputsOf(p) : u.complete /\ o.size < u.size

\* C4: when the transcoder exited with 0 and the original is smaller than the
\* output, then once the pipeline has ended the output is in optimized-bad at
\* the relative path, the original in optimized-original, no copy is in the
\* optimized tree, and the file has reached its final state: its path is in
\* processed_files and the loop goes on.
C4_SizeRegressionRouting ==
    \A p \in Range(invocations) :
        PipelineOver(p) /\ LargerOutput(p) =>
            /\ \E u \in OutputsOf(p) : u.root = OPTIMIZED_BAD_ROOT /\ u.rel = p.rel
            /\ OnlyIn(p, OPTIMIZED_ORIGINAL_ROOT)
            /\ \A u \in OutputsOf(p) : u.root # OUTPUT_ROOT
            /\ p \in processed_files
            /\ pc # "crashed"

Pending(F, processed) ==
    {Join(SOURCE_ROOT, e.rel) : e \in {x \in Walked(F) : is_video_file(x.rel)}} \ processed

\* C6: the scan that follows the processing of a file leaves every video file
\* under the watched root, processed paths aside, in file_queue; and the loop
\* goes to sleep only when there is no such file.
C6_ArrivalsPickedUp ==
    [][ /\ pc = "rescan" /\ pc' = "inner" =>
              Pending(fs', processed_files') \subseteq Range(file_queue')
        /\ pc' = "sleep" /\ pc # "sleep" => Pending(fs', processed_files') = {} ]_vars

\* C6 witness: in a batch in ascending order, the path at the head of the queue
\* sorts before the path processed last: it arrived during the batch.
C6_Witness ==
    /\ ~reverse_order
    /\ pc = "inner"
    /\ pbar_n >= 1
    /\ file_queue # <<>>
    /\ StrLess(PathStr(Head(file_queue)), PathStr(invocations[Len(invocations)]))

\* The sequence q is in ascending order of its path strings, or in descending
\* order when reverse is set.
InOrder(q, reverse) ==
    \A i, j \in 1..Len(q) :
        i < j => IF reverse THEN StrLess(PathStr(q[j]), PathStr(q[i]))
                            ELSE StrLess(PathStr(q[i]), PathStr(q[j]))

\* C7: the queue changes only by losing its head, which becomes the file to
\* process, or by gaining at its end the files of one scan, in ascending
\* (REVERSE_ORDER: descending) order; the paths already queued keep their
\* places.
C7_Ordering ==
    [][ \/ file_queue' = file_queue
        \/ /\ file_queue # <<>>
           /\ file_queue' = Tail(file_queue)
           /\ input_path' = Head(file_queue)
        \/ /\ Len(file_queue') > Len(file_queue)
           /\ SubSeq(file_queue', 1, Len(file_queue)) = file_queue
           /\ InOrder(SubSeq(file_queue', Len(file_queue) + 1, Len(file_queue')),
                      reverse_order) ]_vars

\* C7 witness: the queue holds a path found by a later scan behind a path of
\* an earlier scan that sorts after it (before it, in reverse order).
C7_Witness ==
    /\ Len(file_queue) >= 2
    /\ ~InOrder(file_queue, reverse_order)

\* C8: a path in processed_files is not returned by discovery, is not in
\* file_queue and is not the path in the pipeline, except as the path whose
\* pipeline has just returned.
C8_ProcessedIsFinal ==
    \A p \in processed_files :
        /\ p \notin Range(discover_new_files(fs, processed_files, reverse_order))
        /\ p \notin Range(file_queue)
        /\ p \notin queued_files
        /\ pc \in InPipeline => p # input_path
        /\ Cardinality({i \in 1..Len(invocations) : invocations[i] = p}) <= 1

\* C8 witness: a file exists again at a processed path and the scan of the idle
\* loop has found nothing to do.
C8_Witness ==
    /\ pc = "sleep"
    /\ \E p \in processed_files : Exists(fs, p) /\ is_video_file(p.rel)

\* C9: every original is at one place, in the watched root, done, errored or
\* optimized-original; every output is at one place, in in-progress, optimized
\* or optimized-bad; and no place holds two files.
C9_SingleLocation ==
    /\ \A e1, e2 \in fs :
          \/ e1 = e2
          \/ /\ << e1.kind, e1.src, e1.gen >> # << e2.kind, e2.src, e2.gen >>
             /\ << e1.root, e1.rel >> # << e2.root, e2.rel >>
    /\ \A e \in fs :
          IF e.kind = "orig"
          THEN e.root \in {SOURCE_ROOT, DONE_ROOT, ERRORED_ROOT, OPTIMIZED_ORIGINAL_ROOT}
          ELSE e.root \in {IN_PROGRESS_ROOT, OUTPUT_ROOT, OPTIMIZED_BAD_ROOT}

\* C9 witness: between the two moves of the size-regressed branch, the output
\* is in optimized-bad and the original still under the watched root.
C9_Witness ==
    /\ pc = "move_original"
    /\ Exists(fs, input_path)
    /\ Exists(fs, Join(OPTIMIZED_BAD_ROOT, rel_path))

\* C10: every file in the optimized tree is an output whose transcoder exited
\* with 0; while the transcoder runs, and after it failed, the output of the
\* current file is in the in-progress tree only.
C10_StagingIsolation ==
    /\ \A e \in fs : e.root = OUTPUT_ROOT => e.kind = "out" /\ e.complete
    /\ \A e \in fs : e.kind = "out" /\ ~e.complete => e.root = IN_PROGRESS_ROOT
    /\ pc \in {"stream", "ffmpeg_error"} =>
          \A e \in fs : e.kind = "out" /\ e.src = rel_path => e.root = IN_PROGRESS_ROOT

\* C10 witness: the transcoder has failed and left a partial output in the
\* in-progress tree, while the optimized tree holds the output kept for another
\* file.
C10_Witness ==
    /\ pc = "ffmpeg_error"
    /\ Exists(fs, temp_output_path)
    /\ ~FileAt(fs, temp_output_path).complete
    /\ \E e \in fs : e.root = OUTPUT_ROOT

\* The pipeline for path p has ended with the original kept in done: the
\* file reached succeeded-kept.
Kept(p) == PipelineOver(p) /\ OnlyIn(p, DONE_ROOT)

\* C11: once a file has reached succeeded-kept, the output the transcoder
\* wrote for it is in the optimized tree, complete, at the relative path with
\* the extension '.mp4', whatever files are processed afterwards.
C11_KeptOutputsPermanent ==
    \A p \in Range(invocations) :
        Kept(p) =>
            \E u \in OutputsOf(p) :
                /\ u.root = OUTPUT_ROOT
                /\ u.rel = SplitExtBase(p.rel) \o MP4
                /\ u.complete

\* C12: the counter of the file's progress bar is 0 when the transcode
\* starts, and while the output of the transcoder is read it never decreases.
C12_ProgressMonotonic ==
    [][ /\ pc # "stream" /\ pc' = "stream" => file_pbar_n' = 0
        /\ pc = "stream" /\ pc' = "stream" => file_pbar_n' >= file_pbar_n ]_vars

\* C13: every output file is at the relative directory and base name of its
\* input with the extension '.mp4', in whatever tree it is; every original is
\* at the relative path it arrived at.
C13_ExtensionNormalization ==
    \A e \in fs :
        IF e.kind = "out"
        THEN e.rel = SplitExtBase(e.src) \o MP4
        ELSE e.rel = e.src

\* The resolution probe gave two numbers and the second, the height, is
\* 1081 or more.
HeightAbove1080(p) ==
    /\ p.kind = "stdout"
    /\ Len(p.fields) = 2
    /\ p.fields[1].isdigit /\ p.fields[2].isdigit
    /\ p.fields[2].value >= 1081

\* C14: the command handed to Popen has the filter 'scale=-2:1080' exactly
\* when the probed height is greater than 1080, and no filter at all after
\* any other probe; and, file-system failures aside, building the command
\* never raises: process_video goes on to start the transcoder.
C14_DownscaleDecision ==
    /\ [](pc = "popen" =>
            /\ HeightAbove1080(probe) => command_vf = << "-vf", "scale=-2:1080" >>
            /\ ~HeightAbove1080(probe) => command_vf = << >>)
    /\ [][pc = "setup" /\ faults' = faults => pc' = "popen"]_vars

\* C14 witness: the command of a second file has been built after a probe
\* that gave 3840x2160, and it has a filter.
C14_Witness ==
    /\ pc = "popen"
    /\ probe = Stdout(<< Digits(3840), Digits(2160) >>)
    /\ command_vf # << >>
    /\ Len(invocations) >= 2

\* A directory of the relative path is named like an outcome directory.
InOutcomeNamedDir(rel) ==
    \E d \in DirSegments(rel) : \E i \in 1..Len(SkipDirs) : d = Chars(SkipDirs[i])

\* The paths of the video files under the watched root that lie in no
\* directory named like an outcome directory.
VideoFilesUnderRoot ==
    { Join(SOURCE_ROOT, e.rel) :
        e \in {x \in fs : /\ x.root = SOURCE_ROOT
                          /\ is_video_file(x.rel)
                          /\ ~InOutcomeNamedDir(x.rel)} }

\* C15: with no path processed, collect_video_files returns the video files
\* under the watched root (outside the directories named like an outcome
\* directory), each once; called again with all of them processed and the
\* same files on disk, it returns the empty list.
C15_IdempotentRescan ==
    LET first == collect_video_files(fs, {}, reverse_order)
    IN  /\ Range(first) = VideoFilesUnderRoot
        /\ Len(first) = Cardinality(VideoFilesUnderRoot)
        /\ collect_video_files(fs, Range(first), reverse_order) = <<>>

\* C15 witness: the first scan of a run, with nothing processed, has queued
\* the two or more video files under the watched root.
C15_Witness ==
    /\ pc = "inner"
    /\ processed_files = {}
    /\ Len(file_queue) >= 2
    /\ Range(file_queue) = VideoFilesUnderRoot

\* C16: a file under the watched root inside a directory named like an
\* outcome directory, at any depth, is not returned by collect_video_files,
\* is not queued and is not processed.
C16_OutcomeTreeExclusion ==
    \A e \in fs :
        e.root = SOURCE_ROOT /\ InOutcomeNamedDir(e.rel) =>
            LET p == Join(SOURCE_ROOT, e.rel)
            IN  /\ p \notin Range(collect_video_files(fs, processed_files, reverse_order))
                /\ p \notin Range(collect_video_files(fs, {}, reverse_order))
                /\ p \notin Range(file_queue)
                /\ p \notin queued_files
                /\ p \notin Range(invocations)
                /\ p \notin processed_files
                /\ p # input_path

\* C16 witness: the loop is idle after it processed a file, while video files
\* lie in 'done' and in 's/optimized' under the watched root.
C16_Witness ==
    /\ pc = "sleep"
    /\ invocations # <<>>
    /\ \E e \in fs : e.root = SOURCE_ROOT /\ e.rel = <<100, 111, 110, 101, 47, 100, 46, 109, 112, 52>>
    /\ \E e \in fs : /\ e.root = SOURCE_ROOT
                     /\ is_video_file(e.rel)
                     /\ Chars(OUTPUT_ROOT) \in DirSegments(e.rel)

\* The paths whose pipeline has ended with the original alone in the tree root.
EndedIn(root) == {p \in Range(invocations) : PipelineOver(p) /\ OnlyIn(p, root)}

\* C17: every counter is the number of files that reached its terminal state:
\* success counts the originals in done, size_issue those in
\* optimized-original, error those in errored, skipped the paths marked
\* processed without a call of process_video.
C17_CounterPerTerminalState ==
    /\ total_success = Cardinality(EndedIn(DONE_ROOT))
    /\ total_size_issue = Cardinality(EndedIn(OPTIMIZED_ORIGINAL_ROOT))
    /\ total_error = Cardinality(EndedIn(ERRORED_ROOT))
    /\ total_skipped = Cardinality(processed_files \ Range(invocations))

\* C18: a run that was ended by an interruption of the loop has executed the
\* summary statements that follow the loop (lines 147-149, "summary") and
\* was not left by the exception before them ("interrupted").
C18_FinalSummary == pc \in {"interrupted", "summary"} => pc = "summary"

\* C19: in a run that is not interrupted, a video file that lies under the
\* watched root at an unprocessed path is eventually taken away from there by
\* the pipeline, or its path marked processed.
C19_EventualProcessing ==
    \A rel \in ArrivalPaths :
        (Exists(fs, Join(SOURCE_ROOT, rel)) /\ Join(SOURCE_ROOT, rel) \notin processed_files)
            ~> \/ ~Exists(fs, Join(SOURCE_ROOT, rel))
               \/ Join(SOURCE_ROOT, rel) \in processed_files
               \/ pc = "interrupted"

\* C20: a path whose pipeline has ended is in processed_files, and a path in
\* processed_files is not the path whose pipeline is still running.
C20_ProcessedInsertion ==
    /\ \A p \in Range(invocations) : PipelineOver(p) => p \in processed_files
    /\ \A p \in processed_files : pc \in InPipeline => p # input_path

\* A step in which a move between directories raised for an external
\* reason: the staging-to-output rename, a move of FileManager in the try
\* block, or the move to errored of an error handler (the handler got past
\* its os.remove, so the staging file is gone afterwards).
MoveRaised ==
    /\ faults' > faults
    /\ \/ pc \in {"rename", "move_bad", "move_original", "move_done"}
       \/ /\ pc \in {"ffmpeg_error", "except"}
          /\ ~Exists(fs', temp_output_path)

\* C21: relocation failure is contained.  A move that raises during a file's
\* processing takes process_video to its handler of unexpected errors, never
\* out of the loop; and the result the handler returns is counted in the
\* error counter while the loop goes on to its rescan.
C21_RelocationContained ==
    /\ [][MoveRaised => pc' = "except"]_vars
    /\ [][pc = "returned" /\ result = Exception
            => total_error' = total_error + 1 /\ pc' = "rescan"]_vars

\* C22: a path-resolution error leaves the file untouched.  When
\* get_relative_path raises for the path taken from the queue, no file and no
\* directory is created, moved or deleted, the error counter grows by one and
\* no other counter changes, the path joins processed_files, process_video is
\* not called, and the loop goes on to its rescan.
C22_PathErrorUntouched ==
    [][pc = "file" /\ faults' > faults
         => /\ fs' = fs /\ dirs' = dirs
            /\ total_error' = total_error + 1
            /\ UNCHANGED << total_success, total_skipped, total_size_issue >>
            /\ processed_files' = processed_files \cup {input_path}
            /\ invocations' = invocations
            /\ pc' = "rescan"]_vars

\* The relative path of a queued file could not be computed: the path is
\* processed and counted as an error without a call of process_video, its
\* file still where it was found, and the loop has gone on to another file.
C22_Witness ==
    \E p \in processed_files :
        /\ ~(\E i \in 1..Len(invocations) : invocations[i] = p)
        /\ ~check_skip_directory(get_relative_path(p))
        /\ Exists(fs, p)
        /\ total_error >= 1
        /\ pc = "setup" /\ input_path # p

\* C23: the loop sleeps only when idle.  While it sleeps file_queue is empty
\* and every video file a scan reaches is processed; it enters time.sleep
\* only from the scan at the top of the loop, with an empty queue; it leaves
\* time.sleep only for the top of the loop (or by an interruption); and from
\* the top of the loop it does nothing but scan: it sleeps again, or the
\* queue holds what the scan found.
C23_SleepOnlyWhenIdle ==
    /\ [](pc = "sleep" => /\ file_queue = <<>>
                          /\ queued_files = {}
                          /\ VideoFilesUnderRoot \subseteq processed_files)
    /\ [][pc' = "sleep" /\ pc # "sleep" => pc = "top" /\ file_queue = <<>>]_vars
    /\ [][pc = "sleep" /\ pc' # "sleep" => pc' \in {"top", "interrupted"}]_vars
    /\ [][pc = "top" /\ pc' # "top"
            => \/ pc' = "sleep"
               \/ /\ pc' = "inner"
                  /\ Range(file_queue') = VideoFilesUnderRoot \ processed_files]_vars

\* The loop sleeps after a batch in which process_video was called twice.
C23_Witness ==
    /\ pc = "sleep"
    /\ Len(invocations) >= 2
    /\ pbar_n >= 2

\* The files in the in-progress tree.
Staged == {e \in fs : e.root = IN_PROGRESS_ROOT}

\* C24: one transcode at a time.  The in-progress tree never holds more than
\* one file, and that file is the staging file of the path in the pipeline;
\* no output of a path whose pipeline has returned is in the in-progress
\* tree; and the tree is empty whenever the loop is between two files, so
\* each time it takes the next path from the queue.
C24_OneTranscodeAtATime ==
    /\ Cardinality(Staged) <= 1
    /\ \A e \in Staged : e.kind = "out" /\ e.src = rel_path /\ PathStr(e) = PathStr(temp_output_path)
    /\ \A p \in processed_files : \A e \in OutputsOf(p) : e.root # IN_PROGRESS_ROOT
    /\ pc \in {"top", "sleep", "inner", "file", "rescan"} => Staged = {}

\* The loop is about to take the next path from the queue after a file whose
\* transcoder failed, and after an earlier file whose output was kept.
C24_Witness ==
    /\ pc = "inner"
    /\ file_queue # <<>>
    /\ retcode = 1
    /\ OnlyIn(input_path, ERRORED_ROOT)
    /\ \E e \in fs : e.root = OUTPUT_ROOT
    /\ Staged = {}

\* The trees an original may be in.
OriginalRoots == {SOURCE_ROOT, DONE_ROOT, ERRORED_ROOT, OPTIMIZED_ORIGINAL_ROOT}

\* The original that arrived as the gen-th file at rel is on disk, at its
\* relative path in one of the four trees.
Kept_original(rel, gen) ==
    \E e \in fs : /\ e.kind = "orig" /\ e.src = rel /\ e.gen = gen
                  /\ e.root \in OriginalRoots /\ e.rel = rel

\* C25: no original is lost.  Every file that ever arrived under the watched
\* root, and every file that was there from the start, is on disk at its
\* relative path under the watched root, done, errored or optimized-original.
C25_NoOriginalLost ==
    /\ \A rel \in ArrivalPaths : \A gen \in 1..MaxGen :
          gen <= arrivals[rel] => Kept_original(rel, gen)
    /\ \A rel \in OtherPaths : Kept_original(rel, 1)

\* Originals have been routed to done, to errored and to optimized-original.
C25_Witness ==
    /\ \E e \in fs : e.kind = "orig" /\ e.root = DONE_ROOT
    /\ \E e \in fs : e.kind = "orig" /\ e.root = ERRORED_ROOT
    /\ \E e \in fs : e.kind = "orig" /\ e.root = OPTIMIZED_ORIGINAL_ROOT

\* C26: no orphan output on failure.  When the pipeline for a path has ended
\* with its original in errored, no output the transcoder wrote for it is
\* left in the in-progress tree or in the optimized tree.
C26_NoOrphanOutput ==
    \A p \in Range(invocations) :
        PipelineOver(p) /\ OnlyIn(p, ERRORED_ROOT)
            => \A e \in OutputsOf(p) : e.root \notin {IN_PROGRESS_ROOT, OUTPUT_ROOT}

\* C27: queue bookkeeping.  At the top of the outer loop and of the inner loop
\* of main, queued_files is the set of the paths in file_queue, and no path
\* in file_queue is in processed_files.
C27_QueueBookkeeping ==
    pc \in {"top", "inner"} =>
        /\ queued_files = Range(file_queue)
        /\ Range(file_queue) \cap processed_files = {}

\* The inner loop is at its top with two paths queued, after a first path of
\* the queue was processed and the root was scanned again.
C27_Witness ==
    /\ pc = "inner"
    /\ Len(file_queue) >= 2
    /\ processed_files # {}
    /\ pbar_total >= 3

\* C28: counter conservation.  After every return of process_file_from_queue
\* (the counts are added and the loop is at its rescan, at the top of a loop,
\* asleep, or has taken the next path), the four counters add up to the
\* number of paths in processed_files.
C28_CounterConservation ==
    pc \in {"rescan", "inner", "top", "sleep", "file"} =>
        total_success + total_error + total_skipped + total_size_issue
            = Cardinality(processed_files)

\* process_file_from_queue has returned three times: for a file that was
\* transcoded and kept and for files that failed.
C28_Witness ==
    /\ pc = "rescan"
    /\ Cardinality(processed_files) = 3
    /\ total_success >= 1
    /\ total_error >= 1

\* C29: the skip branch is unreachable from discovery.  No path that
\* collect_video_files returns, and so no path that is queued or taken from
\* the queue, has a relative path that starts with the name of an outcome
\* directory and a separator: check_skip_directory gives no skip reason for
\* it, and total_skipped stays 0.
C29_SkipUnreachable ==
    /\ LET found == collect_video_files(fs, {}, reverse_order)
       IN  \A i \in 1..Len(found) : ~check_skip_directory(get_relative_path(found[i]))
    /\ \A i \in 1..Len(file_queue) : ~check_skip_directory(get_relative_path(file_queue[i]))
    /\ pc = "file" => ~check_skip_directory(rel_path)
    /\ total_skipped = 0

\* With the video file done/d.mp4 lying under the watched root, three paths
\* were taken from the queue and all three were passed to process_video.
C29_Witness ==
    /\ Exists(fs, Join(SOURCE_ROOT, <<100, 111, 110, 101, 47, 100, 46, 109, 112, 52>>))
    /\ Len(invocations) = 3
    /\ Cardinality(processed_files) = 2
    /\ pc = "setup"
    /\ total_skipped = 0

\* ---------------------------------------------------------------- convert.py
\* The single-file entry point.  It defines the directory names and the
\* extensions once more (lines 11-18), with the values config.py has; its run
\* has a disk of its own here, batch_fs and batch_dirs, and no file-system
\* operation of it fails for an external reason.

\* convert.py, move_file_with_structure: the directories are made, the file is
\* moved; it raises when the source is missing.
move_file_with_structure(F, D, source_path, dest_root, rel) ==
    LET dest_path == Join(dest_root, rel)
        done == Exists(F, source_path)
    IN  [ fs     |-> IF done THEN Moved(F, source_path, dest_path) ELSE F,
          dirs   |-> MakeDirs(D, dest_path),
          raised |-> ~done ]

\* convert.py, move_to_errored.
convert_move_to_errored(F, D, path, rel) ==
    LET errored_path == Join(ERRORED_ROOT, rel)
        done == Exists(F, path)
    IN  [ fs     |-> IF done THEN Moved(F, path, errored_path) ELSE F,
          dirs   |-> MakeDirs(D, errored_path),
          raised |-> ~done ]

\* convert.py, compare_file_sizes.
convert_compare_file_sizes(F, original_path, optimized_path) ==
    GetSize(F, original_path) < GetSize(F, optimized_path)

\* convert.py, handle_ffmpeg_error: the staging file is removed when it
\* exists, then the original is moved to the errored tree.
handle_ffmpeg_error(F, D, path, temp, rel) ==
    convert_move_to_errored(Removed(F, temp), D, path, rel)

\* convert.py, handle_unexpected_error: the same two steps.
handle_unexpected_error(F, D, path, temp, rel) ==
    convert_move_to_errored(Removed(F, temp), D, path, rel)

\* convert.py, build_ffmpeg_command: the input after -i and the output path,
\* the last word; there is no scale filter.
build_ffmpeg_command(path, output_path) == [input |-> path, output |-> output_path]

\* convert.py, process_video, for the file at path on which the transcoder
\* behaves as t says (wrote: a failing transcoder left a partial output).  The
\* result is the disk afterwards, the first word of the returned string (no
\* returned string contains "Original file is smaller"), and whether an
\* exception left the function.
convert_process_video(F, D, path, t, wrote) ==
    LET rel == path.rel
        skip == \E i \in 1..Len(SkipDirs) : StartsWith(rel, Chars(SkipDirs[i]) \o SEP)
        base == SplitExtBase(rel)
        final == Join(OUTPUT_ROOT, base \o MP4)
        temp == Join(IN_PROGRESS_ROOT, base \o MP4)
        D1 == MakeDirs(MakeDirs(D, temp), final)
        cmd == build_ffmpeg_command(path, temp)
        written(size, complete) ==
            Removed(F, cmd.output)
                \cup {[ root |-> cmd.output.root, rel |-> cmd.output.rel, kind |-> "out",
                        src |-> rel, gen |-> FileAt(F, cmd.input).gen,
                        size |-> size, complete |-> complete ]}
        returned(m, word) ==
            [fs |-> m.fs, dirs |-> m.dirs, result |-> word, raised |-> FALSE]
        unexpected(F1, D2) ==
            LET h == handle_unexpected_error(F1, D2, path, temp, rel)
            IN  [fs |-> h.fs, dirs |-> h.dirs, result |-> "Exception", raised |-> h.raised]
    IN  IF skip
        THEN [fs |-> F, dirs |-> D, result |-> "Skipped", raised |-> FALSE]
        ELSE IF ~t.found
        THEN unexpected(F, D1)
        ELSE IF t.code # 0
        THEN LET h == handle_ffmpeg_error(IF wrote THEN written(0, FALSE) ELSE F,
                                          D1, path, temp, rel)
             IN  IF h.raised THEN unexpected(h.fs, h.dirs) ELSE returned(h, "Error")
        ELSE LET renamed == Moved(written(t.size, TRUE), temp, final)
             IN  IF convert_compare_file_sizes(renamed, path, final)
                 THEN LET bad == move_file_with_structure(renamed, D1, final,
                                                          OPTIMIZED_BAD_ROOT, ReplaceMp4(rel))
                          original == move_file_with_structure(bad.fs, bad.dirs, path,
                                                               OPTIMIZED_ORIGINAL_ROOT, rel)
                      IN  IF bad.raised THEN unexpected(bad.fs, bad.dirs)
                          ELSE IF original.raised THEN unexpected(original.fs, original.dirs)
                          ELSE returned(original, "Processed")
                 ELSE LET done == move_file_with_structure(renamed, D1, path, DONE_ROOT, rel)
                      IN  IF done.raised THEN unexpected(done.fs, done.dirs)
                          ELSE returned(done, "Processed")

\* convert.py, collect_video_files: the walk prunes the directories named
\* like an outcome directory; video files not yet processed, sorted, reversed
\* on demand.
convert_collect_video_files(F, processed, reverse) ==
    LET video_files ==
            { Join(SOURCE_ROOT, e.rel) :
                e \in {x \in F : /\ x.root = SOURCE_ROOT
                                 /\ \A d \in DirSegments(x.rel) :
                                       \A i \in 1..Len(SkipDirs) : d # Chars(SkipDirs[i])
                                 /\ Lower(Suffix(x.rel)) \in VIDEO_EXTENSIONS} }
                \ processed
    IN  IF reverse THEN Reverse(SortPaths(video_files)) ELSE SortPaths(video_files)

\* The two runs share nothing but the transcoder, so every interleaving of
\* them leads to the same pair of disks: the steps of the batch run are taken
\* once the queue loop has come to rest, asleep or ended by an exception.
QueueLoopAtRest == pc \in {"sleep", "crashed"}

batch_counts == << success_count, error_count, skipped_count, size_issue_count >>

\* convert.py main, lines 239-248: the scan that starts a batch.
BatchScan ==
    /\ batch_pc = "scan"
    /\ QueueLoopAtRest
    /\ LET video_files ==
               convert_collect_video_files(batch_fs, batch_processed_files, reverse_order)
       IN  IF video_files = <<>>
           THEN /\ batch_pc' = "sleep"
                /\ UNCHANGED << batch_video_files, batch_pbar_total >>
           ELSE /\ batch_video_files' = video_files
                /\ batch_pbar_total' = batch_pbar_total + Len(video_files)
                /\ batch_pc' = "for"
    /\ UNCHANGED << queue_loop, transcoder, batch_fs, batch_dirs, batch_processed_files,
                    batch_invocations, batch_counts, batch_pbar_n >>

\* convert.py main, lines 243-244: time.sleep, then the loop starts over.
BatchSleep ==
    /\ batch_pc = "sleep"
    /\ QueueLoopAtRest
    /\ batch_pc' = "scan"
    /\ UNCHANGED << queue_loop, transcoder, batch_fs, batch_dirs, batch_processed_files,
                    batch_video_files, batch_invocations, batch_counts,
                    batch_pbar_n, batch_pbar_total >>

\* convert.py main, lines 250-269: the body of the for loop for the next path
\* of the batch.  An exception that leaves process_video leaves the loop.
BatchFile ==
    /\ batch_pc = "for"
    /\ QueueLoopAtRest
    /\ batch_video_files # <<>>
    /\ \E wrote \in BOOLEAN :
        LET path == Head(batch_video_files)
            r == convert_process_video(batch_fs, batch_dirs, path,
                                       transcoder[path.rel], wrote)
        IN  /\ batch_invocations' = Append(batch_invocations, path)
            /\ batch_fs' = r.fs
            /\ batch_dirs' = r.dirs
            /\ IF r.raised
               THEN /\ batch_pc' = "crashed"
                    /\ UNCHANGED << batch_processed_files, batch_video_files,
                                    batch_counts, batch_pbar_n >>
               ELSE /\ batch_processed_files' = batch_processed_files \cup {path}
                    /\ batch_video_files' = Tail(batch_video_files)
                    /\ success_count' =
                         IF r.result = "Processed" THEN success_count + 1 ELSE success_count
                    /\ error_count' =
                         IF r.result \in {"Error", "Exception"}
                         THEN error_count + 1 ELSE error_count
                    /\ skipped_count' =
                         IF r.result = "Skipped" THEN skipped_count + 1 ELSE skipped_count
                    /\ size_issue_count' = size_issue_count
                    /\ batch_pbar_n' = batch_pbar_n + 1
                    /\ batch_pc' = "for"
    /\ UNCHANGED << queue_loop, transcoder, batch_pbar_total >>

\* convert.py main, lines 250 and 271-272: the for loop is through; video_files
\* is not empty, so the loop of line 238 goes on.
BatchForEnds ==
    /\ batch_pc = "for"
    /\ QueueLoopAtRest
    /\ batch_video_files = <<>>
    /\ batch_pc' = "scan"
    /\ UNCHANGED << queue_loop, transcoder, batch_fs, batch_dirs, batch_processed_files,
                    batch_video_files, batch_invocations, batch_counts,
                    batch_pbar_n, batch_pbar_total >>

\* process_video of main.py, lines 182-187, with the transcoder found or
\* missing as laid down for the file.
EntryPopen ==
    /\ Popen
    /\ (pc' = "stream") = transcoder[rel_path].found

\* The exit of the transcoder main.py started, with the status and the
\* output size laid down for the file.
EntryTranscoderExits ==
    /\ TranscoderExits
    /\ retcode' = transcoder[rel_path].code
    /\ retcode' = 0 => GetSize(fs', command_output) = transcoder[rel_path].size

\* Both entry points are started on the same files: a set of video files
\* under the watched root, each with a size and with a behaviour of the
\* transcoder on it, the same reverse-order flag, empty outcome trees.
InitEntry ==
    /\ arrivals \in [ArrivalPaths -> {0, 1}]
    /\ \E size \in [ArrivalPaths -> 1..MaxSize] :
          fs = {Original(rel, 1, 1) : rel \in OtherPaths}
                  \cup {Original(rel, 1, size[rel]) : rel \in {p \in ArrivalPaths : arrivals[p] = 1}}
    /\ dirs = {}
    /\ reverse_order \in BOOLEAN
    /\ processed_files = {}
    /\ file_queue = <<>>
    /\ queued_files = {}
    /\ total_success = 0
    /\ total_error = 0
    /\ total_skipped = 0
    /\ total_size_issue = 0
    /\ pbar_n = 0
    /\ pbar_total = 0
    /\ pc = "top"
    /\ input_path = NoPath
    /\ retcode = -1
    /\ result = NoResult
    /\ fault_budget = 0
    /\ faults = 0
    /\ invocations = <<>>
    /\ file_pbar_n = 0
    /\ probe = NoProbe
    /\ command_vf = <<>>
    /\ transcoder \in [ArrivalPaths -> Transcodes]
    /\ \A p \in ArrivalPaths : arrivals[p] = 0 => transcoder[p] = NoTranscode
    /\ batch_pc = "scan"
    /\ batch_fs = fs
    /\ batch_dirs = {}
    /\ batch_processed_files = {}
    /\ batch_video_files = <<>>
    /\ batch_invocations = <<>>
    /\ success_count = 0
    /\ error_count = 0
    /\ skipped_count = 0
    /\ size_issue_count = 0
    /\ batch_pbar_n = 0
    /\ batch_pbar_total = 0

\* The run of main.py and the run of convert.py, with no arrival and no
\* interruption.
NextEntry ==
    \/ Scan
    \/ Sleep
    \/ PopFile
    \/ QueueDrained
    \/ StartFile
    \/ Setup
    \/ EntryPopen
    \/ TranscoderWrites
    \/ ReadFrame
    \/ EntryTranscoderExits
    \/ HandleFfmpegError
    \/ Rename
    \/ Compare
    \/ MoveBad
    \/ MoveOriginal
    \/ RemoveFinal
    \/ MoveDone
    \/ Except
    \/ Returned
    \/ Rescan
    \/ BatchScan
    \/ BatchSleep
    \/ BatchFile
    \/ BatchForEnds

SpecEntry == InitEntry /\ [][NextEntry]_vars

\* Where the files of a disk are: tree, relative path, and which file it is.
Placement(F) ==
    {[root |-> e.root, rel |-> e.rel, kind |-> e.kind, src |-> e.src, gen |-> e.gen] : e \in F}

\* Neither run has ended by an exception, both are asleep with nothing left
\* to do: they called the pipeline on the same paths in the same order and
\* left the same files at the same places.
EntryPointsAgreeAsleep ==
    pc = "sleep" /\ batch_pc = "sleep"
        => /\ invocations = batch_invocations
           /\ Placement(fs) = Placement(batch_fs)

\* C30: entry-point equivalence.  Started on the same files with the same
\* reverse-order flag and the same transcoder, and with no file arriving,
\* once both runs have no more to do the queue loop of main.py and the batch
\* loop of convert.py have called the pipeline on the same sequence of paths
\* and have left every original and every output in the same tree at the same
\* relative path.
C30_EntryPointEquivalence ==
    QueueLoopAtRest /\ batch_pc \in {"sleep", "crashed"}
        => /\ invocations = batch_invocations
           /\ Placement(fs) = Placement(batch_fs)

====
